---- MODULE Spec2Model ----
(***************************************************************************)
(* Batch download orchestration of youtube_downloader.py:                  *)
(* YouTubeDownloaderGUI's two fetch passes, its two batch orchestrators    *)
(* (Download tab: start_download_batch, Batch tab: start_batch_download),  *)
(* the pause / resume / cancel handlers, the Tk "after" queue that carries *)
(* the workers' deferred UI updates, and YouTubeDownloader's history.      *)
(*                                                                         *)
(* Threads: the Tk UI thread runs one handler or one deferred callback at  *)
(* a time (one action each); every threading.Thread is a process that      *)
(* takes one step per action and interleaves freely with the others.       *)
(***************************************************************************)
EXTENDS Integers, Sequences, FiniteSets, TLC

\* ------------------------------------------------------------------ bounds
MaxItems   == 2   \* URLs the user types into a tab before fetching
MaxFetches == 1   \* fetch passes started over the session
MaxWorkers == 2   \* batch worker threads started over the session
MaxHooks   == 2   \* progress-hook calls the capability makes per item
TotalBytes == 2   \* total_bytes of an item when the capability reports it
MaxPending == 2   \* deferred progress callbacks waiting in the Tk queue
MaxAppends == 2   \* items each worker records in the history store
MaxClears  == 1   \* times the user clears the history
MaxBoots   == 1   \* times the process ends and the program is started again

Tabs    == {"dl", "bt"}          \* Download tab, Batch tab
Workers == 1..MaxWorkers
Writers == 0..MaxWorkers            \* threads that save the history: 0 is the UI thread

VARIABLES
  batch_video_info,   \* self.batch_video_info: 0 = attribute not set, else id of a list
  lists,              \* heap of Python list objects: id -> sequence of video infos
  fetch_btn,          \* state of fetch_btn ("dl") and batch_fetch_btn ("bt")
  fth,                \* the fetch_thread of each tab
  pause_event,        \* self._pause_event: "absent", "set" or "clear"
  cancel_event,       \* self._cancel_event: "absent", "set" or "clear"
  btn,                \* download_btn, pause_btn, resume_btn, cancel_btn, batch_download_btn
  thr,                \* the batch_thread workers
  afterq,             \* callbacks scheduled with root.after(0, ...), in order
  progress_var,       \* progress_var ("dl") and batch_progress_var ("bt")
  download_history,   \* downloader.download_history
  run,                \* per worker: what the user did during its run (history variable)
  dialog,             \* the modal messagebox.showerror that is open: "none" or "error"
  ui_call,            \* the capability call the UI thread is blocked in, or "none"
  disk,               \* download_history.json: "absent", or a record [whole, entries]
  sav,                \* per history writer: where it is inside add_to_history
  acked,              \* entries whose add_to_history call has returned after a save (history variable)
  boots,              \* crashes followed by a new start of the program, so far
  quality_var,        \* quality_var ("dl") and batch_quality_var ("bt"): the combobox text
  format_var,         \* format_var ("dl") and batch_format_var ("bt")
  log_direct,         \* tabs whose log widget a thread other than the UI thread has written to
  sel,                \* one call of the two catalog lookups: its labels and its results
  cli,                \* run_cli: its arguments, its position and its exit status
  job,                \* the downloader's settings and one batch run that reads them
  lg                  \* one batch run's outcome callbacks and the lines they write

\* The batch orchestration's state, and everything else.
orch == <<batch_video_info, lists, fetch_btn, fth, pause_event, cancel_event,
          btn, thr, afterq, progress_var, download_history, run>>
more == <<sav, acked, boots, job, lg, quality_var, format_var, log_direct, sel, cli>>
rest == <<disk, more>>
others == <<dialog, ui_call, rest>>
vars == <<orch, others>>
\* What the history store's steps leave alone.
ctl == <<batch_video_info, lists, fetch_btn, fth, pause_event, cancel_event,
         btn, thr, afterq, progress_var, run>>
gui == <<dialog, ui_call, job, lg, quality_var, format_var, log_direct, sel, cli>>

\* ------------------------------------------------------------- data
\* A video info as returned by get_video_info: tab and k identify the URL
\* (the k-th line of that tab's text box).
Info(t, k) == [tab |-> t, k |-> k]

\* A progress value is the fraction n/d of the bar's 0..100 range.
Frac(n, d) == [n |-> n, d |-> d]
Zero == Frac(0, 1)
Leq(a, b) == a.n * b.d <= b.n * a.d
IsFull(a) == a.n = a.d

\* quality_presets and format_presets, and the .get(label, default) lookups
\* of the start handlers (labelToQuality, labelToFormat in the spec's words).
quality_presets ==
  [l \in {"4K Ultra HD", "2K QHD", "1080p Full HD", "720p HD", "480p SD", "360p",
          "Best Quality"} |->
     CASE l = "4K Ultra HD"   -> "2160p"
       [] l = "2K QHD"        -> "1440p"
       [] l = "1080p Full HD" -> "1080p"
       [] l = "720p HD"       -> "720p"
       [] l = "480p SD"       -> "480p"
       [] l = "360p"          -> "360p"
       [] l = "Best Quality"  -> "best"]
format_presets ==
  [l \in {"MP4 Video", "MP3 Audio", "WebM Video", "M4A Audio", "AAC Audio",
          "Best Format"} |->
     CASE l = "MP4 Video"   -> "mp4"
       [] l = "MP3 Audio"   -> "mp3"
       [] l = "WebM Video"  -> "webm"
       [] l = "M4A Audio"   -> "m4a"
       [] l = "AAC Audio"   -> "aac"
       [] l = "Best Format" -> "best"]
Range(q) == {q[i] : i \in 1..Len(q)}
Get(d, key, default) == IF key \in DOMAIN d THEN d[key] ELSE default
\* labelToQuality as it would be if an unknown label were passed through.
labelToQualityRaw(l) == Get(quality_presets, l, l)
labelToQuality(l) == Get(quality_presets, l, "best")
labelToFormat(l) == Get(format_presets, l, "mp4")

\* download_history.json: absent, a complete JSON array, or torn (truncated
\* by open(..., 'w') or partly written), which json.load rejects.
\* size stands for the file's length, counted in entries.
Absent == [state |-> "absent", entries |-> <<>>, size |-> 0]
Torn(n) == [state |-> "torn", entries |-> <<>>, size |-> n]
File(entries) == [state |-> "whole", entries |-> entries, size |-> Len(entries)]
\* A buffer flushed at offset 0 of a file opened with 'w': it replaces the
\* content unless another writer has made the file longer since the open.
Flush(d, buf) == IF Len(buf) >= d.size THEN File(buf) ELSE Torn(d.size)
load_download_history(d) == IF d.state = "whole" THEN d.entries ELSE <<>>

NoThread == [kind |-> "none", pc |-> "none", total |-> 0, it |-> 0, idx |-> 0,
             hooks |-> 0, quality |-> "none", format_type |-> "none"]
\* A thread that has ended keeps no locals: "done" after the loop, "dead"
\* when an exception ended it.
Ended(t, how) == [NoThread EXCEPT !.kind = t.kind, !.pc = how]
NoFetch  == [pc |-> "idle", n |-> 0, pos |-> 0, errors |-> 0]
NoRun    == [intr |-> FALSE, paused |-> FALSE, cancel |-> "none", lim |-> 0]

InLoop(w) == thr[w].pc \in {"start", "check", "pausewait", "download", "returned", "raised"}
\* The item at idx is past the checkpoint: download_video has been called
\* and its outcome is not in the history yet.
InFlight(w) == thr[w].pc \in {"download", "returned", "raised"}
Free == {w \in Workers : thr[w].pc = "none"}
NewWorker == CHOOSE w \in Free : \A v \in Free : w <= v

\* Entries of the history that worker w appended, in order.
HistOf(w) == SelectSeq(download_history, LAMBDA e : e.w = w)

NoSave == [pc |-> "idle", n |-> 0, buf |-> <<>>, io |-> "none"]
NoSel == [pc |-> "none", qlabel |-> "", flabel |-> "", quality |-> "none",
          format_type |-> "none"]
\* run_cli: argc is len(sys.argv), qarg and farg are sys.argv[3] and
\* sys.argv[4] ("" when absent), resolved and downloaded tell how the two
\* capability calls ended, loaded is the length of the history the
\* downloader loaded, exit is the exit status.
NoCli == [pc |-> "none", argc |-> 0, qarg |-> "", farg |-> "", quality |-> "none",
          format_type |-> "none", resolved |-> "none", downloaded |-> "none",
          loaded |-> 0, exit |-> "none"]

\* The downloader's settings as __init__ leaves them (download_path
\* ~/Downloads, speed_limit 0 when settings.json has none) and a batch run
\* that has not begun: quality and format_type are batch_thread's locals,
\* at_start is what the settings were when the run began, used lists what
\* each download_video call of the run was given.
NoRate == 0 - 1
NoJob == [download_path |-> "~/Downloads", speed_limit |-> 0, pc |-> "idle", n |-> 0,
          idx |-> 0, quality |-> "none", format_type |-> "none",
          at_start |-> [path |-> "", ratelimit |-> NoRate, quality |-> "none",
                        format_type |-> "none"],
          used |-> <<>>]
\* A batch run's reporting: title and e are the closure cells of
\* batch_thread that the deferred lambdas read (0 = unbound, else the item
\* the value belongs to), q the callbacks handed to root.after and not run
\* yet, out the lines and notifications shown.
NoLog == [pc |-> "idle", n |-> 0, idx |-> 0, title |-> 0, e |-> 0, q |-> <<>>, out |-> <<>>]

\* The program started as the GUI: no history file yet, the comboboxes at
\* their defaults.
InitGui ==
  /\ dialog = "none"
  /\ ui_call = "none"
  /\ job = NoJob
  /\ lg = NoLog
  /\ log_direct = {}
  /\ quality_var = [t \in Tabs |-> "Best Quality"]
  /\ format_var = [t \in Tabs |-> "MP4 Video"]

InitStore ==
  /\ disk = Absent
  /\ sav = [w \in Writers |-> NoSave]
  /\ acked = {}
  /\ boots = 0

InitRest == InitGui /\ InitStore /\ sel = NoSel /\ cli = NoCli

InitOrch ==
  /\ batch_video_info = 0
  /\ lists = <<>>
  /\ fetch_btn = [t \in Tabs |-> "normal"]
  /\ fth = [t \in Tabs |-> NoFetch]
  /\ pause_event = "absent"
  /\ cancel_event = "absent"
  /\ btn = [download |-> "disabled", pause |-> "disabled", resume |-> "disabled",
            cancel |-> "disabled", batch_download |-> "disabled"]
  /\ thr = [w \in Workers |-> NoThread]
  /\ afterq = <<>>
  /\ progress_var = [t \in Tabs |-> Zero]
  /\ download_history = <<>>
  /\ run = [w \in Workers |-> NoRun]

Init == InitOrch /\ InitRest

\* ------------------------------------------------------ history variable
\* run[w] records, while worker w is in its loop, what the user did to its
\* run: intr (a pause, a cancel or a further start happened), paused (pause
\* was called and resume has not been called since), cancel ("early" when
\* cancel_download first ran before w's first checkpoint, "late" when it
\* first ran later) and lim, the highest queue position that may still
\* start after that cancel: the item past the checkpoint when there is
\* one, else the last one finished.
CancelEarly(w) == thr[w].pc \in {"start", "check"} /\ thr[w].idx = 0
CancelLimit(w) ==
  IF InFlight(w) \/ (thr[w].pc = "pausewait" /\ pause_event = "set")
  THEN thr[w].idx + 1
  ELSE thr[w].idx

NoteStart ==
  [w \in Workers |-> IF InLoop(w) THEN [run[w] EXCEPT !.intr = TRUE] ELSE run[w]]
NotePause ==
  [w \in Workers |-> IF thr[w].kind = "dl" /\ InLoop(w)
                     THEN [run[w] EXCEPT !.intr = TRUE, !.paused = TRUE]
                     ELSE run[w]]
NoteResume ==
  [w \in Workers |-> [run[w] EXCEPT !.paused = FALSE]]
NoteCancel ==
  [w \in Workers |->
     IF thr[w].kind = "dl" /\ InLoop(w)
     THEN IF run[w].cancel = "none"
          THEN [run[w] EXCEPT !.intr = TRUE, !.lim = CancelLimit(w),
                  !.cancel = IF CancelEarly(w) THEN "early" ELSE "late"]
          ELSE [run[w] EXCEPT !.intr = TRUE]
     ELSE run[w]]

\* ------------------------------------------------------------ fetch pass
\* fetch_video_info_batch / fetch_batch_info up to the thread start: the
\* button is disabled (nothing enables it again), the queue attribute is
\* rebound to a fresh list and a fetch_thread is started over the n URLs.
Fetch(t, n) ==
  /\ dialog = "none" /\ ui_call = "none"
  /\ fetch_btn[t] = "normal"
  /\ fetch_btn' = [fetch_btn EXCEPT ![t] = "disabled"]
  /\ lists' = Append(lists, <<>>)
  /\ batch_video_info' = Len(lists) + 1
  /\ fth' = [fth EXCEPT ![t] = [pc |-> "run", n |-> n, pos |-> 0, errors |-> 0]]
  /\ UNCHANGED <<pause_event, cancel_event, btn, thr, afterq, progress_var,
                 download_history, run>>
  /\ UNCHANGED others

\* The sessions explored in full have MaxFetches fetch passes.
FetchPass(t, n) == Len(lists) < MaxFetches /\ Fetch(t, n)

fetch_video_info_batch == \E n \in 1..MaxItems : FetchPass("dl", n)
fetch_batch_info == \E n \in 1..MaxItems : FetchPass("bt", n)

\* One iteration of fetch_thread's loop: get_video_info returns an info,
\* which is appended to whatever list self.batch_video_info names now, or
\* raises, which counts an error and writes a line to the tab's log widget
\* (log_message / batch_log_message, called from this thread).  After the
\* last URL the update callback is handed to the UI thread.
FetchStep(t, ok) ==
  /\ fth[t].pc = "run"
  /\ LET last == fth[t].pos + 1 = fth[t].n
     IN  /\ fth' = [fth EXCEPT ![t].pos = @ + 1,
                               ![t].errors = IF ok THEN @ ELSE @ + 1,
                               ![t].pc = IF last THEN "done" ELSE "run"]
         /\ lists' = IF ok
                     THEN [lists EXCEPT ![batch_video_info] =
                             Append(@, Info(t, fth[t].pos + 1))]
                     ELSE lists
         /\ afterq' = IF last
                      THEN Append(afterq, [k |-> "update_info", tab |-> t, w |-> 0, v |-> Zero])
                      ELSE afterq
  /\ log_direct' = IF ok THEN log_direct ELSE log_direct \cup {t}
  /\ UNCHANGED <<batch_video_info, fetch_btn, pause_event, cancel_event, btn, thr,
                 progress_var, download_history, run>>
  /\ UNCHANGED <<dialog, ui_call, disk, sav, acked, boots, job, lg, quality_var, format_var, sel, cli>>

fetch_thread == \E t \in Tabs, ok \in BOOLEAN : FetchStep(t, ok)

QueueEmpty == IF batch_video_info = 0 THEN TRUE ELSE lists[batch_video_info] = <<>>

\* update_video_info_batch / update_batch_info, run by the UI thread.  On the
\* Download tab a non-empty queue leads into update_video_info, which calls
\* get_available_formats on this thread before it enables the button.
UpdateInfo(t) ==
  LET b == IF t = "dl" THEN "download" ELSE "batch_download"
  IN  IF t = "dl" /\ ~QueueEmpty
      THEN /\ ui_call' = "get_available_formats"
           /\ UNCHANGED btn
      ELSE /\ btn' = [btn EXCEPT ![b] = IF QueueEmpty THEN "disabled" ELSE "normal"]
           /\ UNCHANGED ui_call

\* update_video_info from the return of get_available_formats on: the call
\* has returned or raised, both paths enable the download button.
update_video_info ==
  /\ ui_call = "get_available_formats"
  /\ ui_call' = "none"
  /\ btn' = [btn EXCEPT !["download"] = "normal"]
  /\ UNCHANGED <<batch_video_info, lists, fetch_btn, fth, pause_event, cancel_event,
                 thr, afterq, progress_var, download_history, run>>
  /\ UNCHANGED <<dialog, rest>>

\* ---------------------------------------------------------- UI commands
\* RejectStart as it would be if the queue test came after the creation
\* of the two events.
RejectStartLate ==
  /\ QueueEmpty
  /\ dialog' = "error"
  /\ UNCHANGED ui_call
  /\ pause_event' = "set"
  /\ cancel_event' = "clear"
  /\ UNCHANGED <<batch_video_info, lists, fetch_btn, fth, btn,
                 thr, afterq, progress_var, download_history, run, rest>>

\* The rejection of both start handlers: with no queue attribute or an
\* empty queue, messagebox.showerror opens (and holds the user's input until
\* it is dismissed) and the handler returns.
RejectStart ==
  /\ QueueEmpty
  /\ dialog' = "error"
  /\ UNCHANGED ui_call
  /\ UNCHANGED <<orch, rest>>

\* The user closes the error box.
dismiss ==
  /\ dialog = "error" /\ ui_call = "none"
  /\ dialog' = "none"
  /\ UNCHANGED <<orch, ui_call, rest>>

\* The rest of start_download_batch, past the queue test.
StartDownloadBatch ==
  /\ ~QueueEmpty
  /\ Free # {}
  /\ btn' = [btn EXCEPT !.download = "disabled", !.pause = "normal",
                        !.cancel = "normal", !.resume = "disabled"]
  /\ progress_var' = [progress_var EXCEPT !["dl"] = Zero]
  /\ pause_event' = "set"
  /\ cancel_event' = "clear"
  /\ thr' = [thr EXCEPT ![NewWorker] =
               [NoThread EXCEPT !.kind = "dl", !.pc = "start",
                                !.quality = labelToQuality(quality_var["dl"]),
                                !.format_type = labelToFormat(format_var["dl"])]]
  /\ run' = NoteStart
  /\ UNCHANGED <<batch_video_info, lists, fetch_btn, fth, afterq, download_history>>
  /\ UNCHANGED others

\* start_download_batch (Download button or Ctrl+D, which is bound whatever
\* the button's state).
start_download_batch ==
  /\ dialog = "none" /\ ui_call = "none"
  /\ (RejectStart \/ StartDownloadBatch)

\* The rest of start_batch_download, past the queue test.
StartBatchDownload ==
  /\ ~QueueEmpty
  /\ Free # {}
  /\ btn' = [btn EXCEPT !.batch_download = "disabled"]
  /\ progress_var' = [progress_var EXCEPT !["bt"] = Zero]
  /\ thr' = [thr EXCEPT ![NewWorker] =
               [NoThread EXCEPT !.kind = "bt", !.pc = "start",
                                !.quality = labelToQuality(quality_var["bt"]),
                                !.format_type = labelToFormat(format_var["bt"])]]
  /\ run' = NoteStart
  /\ UNCHANGED <<batch_video_info, lists, fetch_btn, fth, pause_event, cancel_event,
                 afterq, download_history>>
  /\ UNCHANGED others

\* start_batch_download (Download All button of the Batch tab only).
start_batch_download ==
  /\ dialog = "none" /\ ui_call = "none"
  /\ btn.batch_download = "normal"
  /\ (RejectStart \/ StartBatchDownload)

\* pause_download, resume_download, cancel_download (buttons or Ctrl+P,
\* Ctrl+R, Ctrl+C); each does nothing until the events exist.
pause_download ==
  /\ dialog = "none" /\ ui_call = "none"
  /\ pause_event # "absent"
  /\ pause_event' = "clear"
  /\ btn' = [btn EXCEPT !.pause = "disabled", !.resume = "normal"]
  /\ run' = NotePause
  /\ UNCHANGED <<batch_video_info, lists, fetch_btn, fth, cancel_event, thr, afterq,
                 progress_var, download_history>>
  /\ UNCHANGED others

resume_download ==
  /\ dialog = "none" /\ ui_call = "none"
  /\ pause_event # "absent"
  /\ pause_event' = "set"
  /\ btn' = [btn EXCEPT !.pause = "normal", !.resume = "disabled"]
  /\ run' = NoteResume
  /\ UNCHANGED <<batch_video_info, lists, fetch_btn, fth, cancel_event, thr, afterq,
                 progress_var, download_history>>
  /\ UNCHANGED others

\* cancel_download as it would be if it stopped the download in flight.
cancel_download_abort ==
  /\ dialog = "none" /\ ui_call = "none"
  /\ cancel_event # "absent"
  /\ cancel_event' = "set"
  /\ btn' = [btn EXCEPT !.pause = "disabled", !.resume = "disabled",
                        !.cancel = "disabled", !.download = "normal"]
  /\ run' = NoteCancel
  /\ thr' = [w \in Workers |-> IF thr[w].kind = "dl" /\ thr[w].pc = "download"
                                THEN [thr[w] EXCEPT !.pc = "check"] ELSE thr[w]]
  /\ UNCHANGED <<batch_video_info, lists, fetch_btn, fth, pause_event, afterq,
                 progress_var, download_history>>
  /\ UNCHANGED others

cancel_download ==
  /\ dialog = "none" /\ ui_call = "none"
  /\ cancel_event # "absent"
  /\ cancel_event' = "set"
  /\ btn' = [btn EXCEPT !.pause = "disabled", !.resume = "disabled",
                        !.cancel = "disabled", !.download = "normal"]
  /\ run' = NoteCancel
  /\ UNCHANGED <<batch_video_info, lists, fetch_btn, fth, pause_event, thr, afterq,
                 progress_var, download_history>>
  /\ UNCHANGED others

\* ------------------------------------------------------- batch_thread
Item(w) == lists[thr[w].it][thr[w].idx + 1]
Pending == Len(SelectSeq(afterq, LAMBDA c : c.k = "progress"))
Progress(w, v) == [k |-> "progress", tab |-> thr[w].kind, w |-> w, v |-> v]

\* total = len(self.batch_video_info) and enumerate(self.batch_video_info):
\* the iterator keeps the list object named at that moment.
BeginLoop(w) ==
  /\ thr[w].pc = "start"
  /\ thr' = [thr EXCEPT ![w].total = Len(lists[batch_video_info]),
                        ![w].it = batch_video_info, ![w].pc = "check"]
  /\ UNCHANGED <<batch_video_info, lists, fetch_btn, fth, pause_event, cancel_event,
                 btn, afterq, progress_var, download_history, run>>
  /\ UNCHANGED others

\* The post-loop resets: one callback for each button, scheduled in this
\* order.  tab names the button; the Download tab's worker enables
\* download_btn and disables the three others, the Batch tab's worker
\* enables batch_download_btn.
Config(w, b) == [k |-> "config", tab |-> b, w |-> w, v |-> Zero]
Controls(w) ==
  IF thr[w].kind = "dl"
  THEN <<Config(w, "download"), Config(w, "pause"), Config(w, "resume"), Config(w, "cancel")>>
  ELSE <<Config(w, "batch_download")>>

\* The loop head.  The iterator ends the loop when the list has no item at
\* idx; the Download tab's worker then reads self._cancel_event and breaks
\* when it is set; the Batch tab's worker has no checkpoint.  Leaving the
\* loop, the worker hands the control resets to the UI thread and ends.
Checkpoint(w) ==
  /\ thr[w].pc = "check"
  /\ LET exhausted == thr[w].idx >= Len(lists[thr[w].it])
         canceled == thr[w].kind = "dl" /\ cancel_event = "set"
     IN  /\ thr' = [thr EXCEPT ![w] =
               IF exhausted \/ canceled THEN Ended(@, "done")
               ELSE IF thr[w].kind = "dl" THEN [@ EXCEPT !.pc = "pausewait"]
               ELSE [@ EXCEPT !.pc = "download", !.hooks = 0]]
         /\ afterq' = IF exhausted \/ canceled THEN afterq \o Controls(w) ELSE afterq
         /\ run' = IF exhausted \/ canceled THEN [run EXCEPT ![w] = NoRun] ELSE run
  /\ UNCHANGED <<batch_video_info, lists, fetch_btn, fth, pause_event, cancel_event,
                 btn, progress_var, download_history>>
  /\ UNCHANGED others

\* while not self._pause_event.is_set(): time.sleep(0.2)
\* The worker leaves the wait only when it reads the event set (a sleep
\* changes nothing).  It then probes for partial files with
\* Path(...).glob(f"{title}.*.part"), outside the try: glob raises for a
\* title it rejects (a leading "/", an embedded "**") and the exception
\* ends the thread; otherwise download_video is called.
PauseWait(w, globRaises) ==
  /\ thr[w].pc = "pausewait"
  /\ pause_event = "set"
  /\ thr' = [thr EXCEPT ![w] =
       IF globRaises THEN Ended(@, "dead")
                     ELSE [@ EXCEPT !.pc = "download", !.hooks = 0]]
  /\ run' = IF globRaises THEN [run EXCEPT ![w] = NoRun] ELSE run
  /\ UNCHANGED <<batch_video_info, lists, fetch_btn, fth, pause_event, cancel_event,
                 btn, afterq, progress_var, download_history>>
  /\ UNCHANGED others

\* Record as it would be if the except branch did not call add_to_history.
RecordCompletedOnly(w, status) ==
  /\ download_history' =
       IF status = "failed" THEN download_history
       ELSE Append(download_history,
              [w |-> w, pos |-> thr[w].idx + 1, info |-> Item(w), status |-> status])
  /\ disk' = File(download_history')
  /\ thr' = [thr EXCEPT ![w].idx = @ + 1, ![w].pc = "check"]

\* Record as it would be if a failed item were tried again.
RecordRetry(w, status) ==
  /\ download_history' = Append(download_history,
       [w |-> w, pos |-> thr[w].idx + 1, info |-> Item(w), status |-> status])
  /\ disk' = File(download_history')
  /\ thr' = [thr EXCEPT ![w].idx = IF status = "failed" THEN @ ELSE @ + 1,
                        ![w].pc = "check"]

\* The history append and the advance to the next iteration.
Record(w, status) ==
  /\ download_history' = Append(download_history,
       [w |-> w, pos |-> thr[w].idx + 1, info |-> Item(w), status |-> status])
  /\ disk' = File(download_history')
  /\ thr' = [thr EXCEPT ![w].idx = @ + 1, ![w].pc = "check"]

\* progress_hook, called by the capability during download_video with
\* d = {status, downloaded_bytes, total_bytes}; known = 0 stands for an
\* absent or zero total_bytes.  With total = 0 the division raises inside
\* the hook, download_video wraps that and the item fails.
Hook(w, status, downloaded, known) ==
  /\ thr[w].pc = "download"
  /\ thr[w].hooks < MaxHooks
  /\ Pending < MaxPending
  /\ LET T == thr[w].total
         I == thr[w].idx
         computes == status = "finished" \/ known = 1
     IN  IF computes /\ T = 0
         THEN /\ thr' = [thr EXCEPT ![w].pc = "raised"]
              /\ UNCHANGED <<afterq, download_history>>
         ELSE /\ thr' = [thr EXCEPT ![w].hooks = @ + 1]
              /\ afterq' =
                   IF status = "finished"
                   THEN Append(afterq, Progress(w, Frac(I + 1, T)))
                   ELSE IF known = 1
                   THEN Append(afterq,
                          Progress(w, Frac(I * TotalBytes + downloaded, T * TotalBytes)))
                   ELSE afterq
              /\ UNCHANGED download_history
  /\ UNCHANGED <<batch_video_info, lists, fetch_btn, fth, pause_event, cancel_event,
                 btn, progress_var, run>>
  /\ UNCHANGED others

progress_hook(w) ==
  \/ \E downloaded \in 0..TotalBytes, known \in {0, 1} :
        Hook(w, "downloading", downloaded, known)
  \/ Hook(w, "finished", TotalBytes, 1)

\* download_video returns, or raises into the except branch.
DownloadReturns(w) ==
  /\ thr[w].pc = "download"
  /\ thr' = [thr EXCEPT ![w].pc = "returned"]
  /\ UNCHANGED <<batch_video_info, lists, fetch_btn, fth, pause_event, cancel_event,
                 btn, afterq, progress_var, download_history, run>>
  /\ UNCHANGED others

DownloadRaises(w) ==
  /\ thr[w].pc = "download"
  /\ thr' = [thr EXCEPT ![w].pc = "raised"]
  /\ UNCHANGED <<batch_video_info, lists, fetch_btn, fth, pause_event, cancel_event,
                 btn, afterq, progress_var, download_history, run>>
  /\ UNCHANGED others

\* The rest of the try body: add_to_history(url, title, quality, format_type).
TryTail(w) ==
  /\ thr[w].pc = "returned"
  /\ Record(w, "completed")
  /\ UNCHANGED <<batch_video_info, lists, fetch_btn, fth, pause_event, cancel_event,
                 btn, afterq, progress_var, run>>
  /\ UNCHANGED <<dialog, ui_call, more>>

\* The except branch: add_to_history(..., "failed"); the loop goes on.
ExceptBranch(w) ==
  /\ thr[w].pc = "raised"
  /\ Record(w, "failed")
  /\ UNCHANGED <<batch_video_info, lists, fetch_btn, fth, pause_event, cancel_event,
                 btn, afterq, progress_var, run>>
  /\ UNCHANGED <<dialog, ui_call, more>>

batch_thread ==
  \E w \in Workers :
    \/ BeginLoop(w)
    \/ Checkpoint(w)
    \/ \E globRaises \in BOOLEAN : PauseWait(w, globRaises)
    \/ DownloadRaises(w)
    \/ DownloadReturns(w)
    \/ TryTail(w)
    \/ ExceptBranch(w)

\* ------------------------------------------------------------ UI thread
\* The Tk main loop runs the oldest callback scheduled with root.after(0, ...).
ui_after ==
  /\ afterq # <<>>
  /\ ui_call = "none"
  /\ afterq' = Tail(afterq)
  /\ LET c == Head(afterq)
     IN  \/ /\ c.k = "progress"
            /\ progress_var' = [progress_var EXCEPT ![c.tab] = c.v]
            /\ UNCHANGED <<btn, ui_call>>
         \/ /\ c.k = "update_info"
            /\ UpdateInfo(c.tab)
            /\ UNCHANGED progress_var
         \/ /\ c.k = "config"
            /\ btn' = [btn EXCEPT ![c.tab] =
                        IF c.tab \in {"download", "batch_download"} THEN "normal"
                        ELSE "disabled"]
            /\ UNCHANGED <<progress_var, ui_call>>
  /\ UNCHANGED <<batch_video_info, lists, fetch_btn, fth, pause_event, cancel_event,
                 thr, download_history, run>>
  /\ UNCHANGED <<dialog, rest>>

Next ==
  \/ fetch_video_info_batch
  \/ fetch_batch_info
  \/ fetch_thread
  \/ start_download_batch
  \/ start_batch_download
  \/ pause_download
  \/ resume_download
  \/ cancel_download
  \/ dismiss
  \/ batch_thread
  \/ ui_after
  \/ update_video_info

Spec == Init /\ [][Next]_vars

\* One uninterrupted run with the capability's progress hooks delivered:
\* the user fetches, starts one batch and then leaves the controls alone.
FirstStart ==
  /\ \A w \in Workers : thr[w].pc = "none"
  /\ (start_download_batch \/ start_batch_download)

NextProgress ==
  \/ fetch_video_info_batch
  \/ fetch_batch_info
  \/ fetch_thread
  \/ FirstStart
  \/ dismiss
  \/ batch_thread
  \/ \E w \in Workers : progress_hook(w)
  \/ ui_after
  \/ update_video_info

SpecProgress == Init /\ [][NextProgress]_vars

\* The scheduler runs every thread that can take a step, the capability
\* returns or raises in the end, and the Tk main loop keeps running
\* callbacks; nothing makes the user press a key.
Fairness ==
  /\ \A w \in Workers : WF_vars(BeginLoop(w) \/ Checkpoint(w)
                                 \/ (\E g \in BOOLEAN : PauseWait(w, g))
                                 \/ DownloadReturns(w) \/ DownloadRaises(w)
                                 \/ TryTail(w) \/ ExceptBranch(w))
  /\ WF_vars(fetch_thread)
  /\ WF_vars(ui_after)
  /\ WF_vars(update_video_info)

FairSpec == Spec /\ Fairness

\* The labels the catalog lookups are tried with: every label of either
\* catalog (a format label is unknown to the quality catalog and the other
\* way round) and some strings of neither, among them bare selectors.
Labels == DOMAIN quality_presets \cup DOMAIN format_presets \cup {"", "1080p", "mp3"}

\* The two lookups as the start handlers write them, applied to any labels.
Lookup ==
  /\ sel.pc = "call"
  /\ sel' = [sel EXCEPT !.pc = "return",
                         !.quality = labelToQuality(sel.qlabel),
                         !.format_type = labelToFormat(sel.flabel)]
  /\ UNCHANGED <<orch, dialog, ui_call, disk, sav, acked, boots, job, lg, quality_var, format_var, log_direct, cli>>

InitLabels ==
  /\ InitOrch /\ InitGui /\ InitStore /\ cli = NoCli
  /\ \E ql \in Labels, fl \in Labels : sel = [NoSel EXCEPT !.pc = "call", !.qlabel = ql, !.flabel = fl]

SpecLabels == InitLabels /\ [][Lookup]_vars

\* ------------------------------------------------------- history store
\* The history store with its steps told apart: add_to_history as each
\* batch worker calls it once per item (writer 1 works through the Download
\* tab's items, writer 2 through the Batch tab's), clear_history on the UI
\* thread, and the end of the process at any point followed by a new start.
Entry(w, n, status) ==
  [w |-> w, pos |-> n, info |-> Info(IF w = 1 THEN "dl" ELSE "bt", n), status |-> status]

\* self.download_history.append(entry), with the item's outcome as status.
AddEntry(w, status) ==
  /\ sav[w].pc = "idle"
  /\ sav[w].n < MaxAppends
  /\ download_history' = Append(download_history, Entry(w, sav[w].n + 1, status))
  /\ sav' = [sav EXCEPT ![w].pc = "appended", ![w].n = @ + 1]
  /\ UNCHANGED <<disk, acked, boots, ctl, gui>>

\* clear_history once the user has answered yes: the attribute is rebound
\* to an empty list; save_download_history follows.
clear_history ==
  /\ sav[0].pc = "idle"
  /\ sav[0].n < MaxClears
  /\ download_history' = <<>>
  /\ acked' = {}
  /\ sav' = [sav EXCEPT ![0].pc = "appended", ![0].n = @ + 1]
  /\ UNCHANGED <<disk, boots, ctl, gui>>

\* open(history_file, 'w') creates or truncates the file.
SaveOpen(w) ==
  /\ sav[w].pc = "appended"
  /\ disk' = Torn(0)
  /\ sav' = [sav EXCEPT ![w].pc = "open"]
  /\ UNCHANGED <<download_history, acked, boots, ctl, gui>>

\* json.dump(self.download_history, f, indent=2): the list as it is now is
\* encoded into the file object's buffer.
SaveDump(w) ==
  /\ sav[w].pc = "open"
  /\ sav' = [sav EXCEPT ![w].pc = "dumped", ![w].buf = download_history]
  /\ UNCHANGED <<download_history, disk, acked, boots, ctl, gui>>

\* Leaving the with block flushes the buffer and closes the file;
\* save_download_history and add_to_history return.
SaveClose(w) ==
  /\ sav[w].pc = "dumped"
  /\ disk' = Flush(disk, sav[w].buf)
  /\ sav' = [sav EXCEPT ![w].pc = "idle", ![w].buf = <<>>,
                         ![w].io = IF @ = "failed" THEN @ ELSE "ok"]
  /\ acked' = IF w = 0 THEN acked
              ELSE acked \cup {e \in Range(download_history) : e.w = w /\ e.pos = sav[w].n}
  /\ UNCHANGED <<download_history, boots, ctl, gui>>

\* The bare except of save_download_history as it would be if it raised
\* again: the exception ends the thread that called add_to_history.
Reraise(w) == sav' = [sav EXCEPT ![w].pc = "dead", ![w].buf = <<>>, ![w].io = "failed"]

\* except: pass, and the return to the caller; io keeps the failure.
Swallow(w) == sav' = [sav EXCEPT ![w].pc = "idle", ![w].buf = <<>>, ![w].io = "failed"]

\* open raises (no permission, no such directory): the file is as it was.
OpenFails(w) ==
  /\ sav[w].pc = "appended"
  /\ Swallow(w)
  /\ UNCHANGED <<download_history, disk, acked, boots, ctl, gui>>

\* The write of the flush raises (disk full): the file stays truncated.
CloseFails(w) ==
  /\ sav[w].pc = "dumped"
  /\ Swallow(w)
  /\ UNCHANGED <<download_history, disk, acked, boots, ctl, gui>>

\* The process ends (killed, power loss) and the program is started again:
\* unflushed buffers are gone, the history is loaded from the file.  n goes
\* on counting, so that the items recorded after the start are new ones.
Crash ==
  /\ boots < MaxBoots
  /\ boots' = boots + 1
  /\ sav' = [w \in Writers |-> [NoSave EXCEPT !.n = sav[w].n]]
  /\ download_history' = load_download_history(disk)
  /\ UNCHANGED <<disk, acked, ctl, gui>>

add_to_history ==
  \E w \in Workers :
    \/ \E status \in {"completed", "failed"} : AddEntry(w, status)
    \/ SaveOpen(w)
    \/ SaveDump(w)
    \/ SaveClose(w)
    \/ OpenFails(w)
    \/ CloseFails(w)

NextHistory ==
  \/ add_to_history
  \/ clear_history
  \/ SaveOpen(0) \/ SaveDump(0) \/ SaveClose(0) \/ OpenFails(0) \/ CloseFails(0)
  \/ Crash

SpecHistory == Init /\ [][NextHistory]_vars

\* ------------------------------------------------------------------ CLI
\* The program started with arguments.  The entry it records.
CliEntry == [w |-> 0, pos |-> 1, info |-> Info("cli", 1), status |-> "completed"]

\* The defaults of the optional arguments, and YouTubeDownloader(), which
\* loads the history file.
CliStart ==
  /\ cli.pc = "argv"
  /\ download_history' = load_download_history(disk)
  /\ cli' = [cli EXCEPT !.pc = "resolve",
                         !.quality = IF cli.argc > 3 THEN cli.qarg ELSE "best",
                         !.format_type = IF cli.argc > 4 THEN cli.farg ELSE "mp4",
                         !.loaded = Len(load_download_history(disk))]
  /\ UNCHANGED <<disk, sav, acked, boots, ctl, dialog, ui_call, job, lg, quality_var, format_var, log_direct, sel>>

\* The except branch as it would be without sys.exit(1): run_cli returns.
CliExceptReturns(c) == [c EXCEPT !.pc = "exit", !.exit = 0]

\* except Exception as e: print(...); sys.exit(1)
CliExcept(c) == [c EXCEPT !.pc = "exit", !.exit = 1]

\* downloader.get_video_info(url) returns the info or raises.
CliResolve(ok) ==
  /\ cli.pc = "resolve"
  /\ cli' = IF ok THEN [cli EXCEPT !.pc = "download", !.resolved = "ok"]
            ELSE CliExcept([cli EXCEPT !.resolved = "failed"])
  /\ UNCHANGED <<download_history, disk, sav, acked, boots, ctl, dialog, ui_call, job, lg, quality_var,
                 format_var, log_direct, sel>>

\* downloader.download_video(url, output_path, quality, format_type,
\* progress_hook) returns or raises.
CliDownload(ok) ==
  /\ cli.pc = "download"
  /\ cli' = IF ok THEN [cli EXCEPT !.pc = "record", !.downloaded = "ok"]
            ELSE CliExcept([cli EXCEPT !.downloaded = "failed"])
  /\ UNCHANGED <<download_history, disk, sav, acked, boots, ctl, dialog, ui_call, job, lg, quality_var,
                 format_var, log_direct, sel>>

\* downloader.add_to_history(url, video_info['title'], quality, format_type),
\* whose save rewrites the file, or fails at the open or at the flush and
\* is swallowed; run_cli returns and the process exits with status 0.
CliRecord(io) ==
  /\ cli.pc = "record"
  /\ download_history' = Append(download_history, CliEntry)
  /\ disk' = CASE io = "ok" -> File(download_history')
                [] io = "open" -> disk
                [] io = "flush" -> Torn(0)
  /\ cli' = [cli EXCEPT !.pc = "exit", !.exit = 0]
  /\ UNCHANGED <<sav, acked, boots, ctl, dialog, ui_call, job, lg, quality_var, format_var, log_direct, sel>>

run_cli ==
  \/ CliStart
  \/ \E ok \in BOOLEAN : CliResolve(ok)
  \/ \E ok \in BOOLEAN : CliDownload(ok)
  \/ \E io \in {"ok", "open", "flush"} : CliRecord(io)

\* The command lines tried: one to four arguments after the program name,
\* labels of the catalog, bare selectors and other strings; the history
\* file as an earlier session left it.
CliLabels == {"1080p Full HD", "720p", "MP3 Audio", "mp3", "x"}
InitCli ==
  /\ InitOrch /\ InitGui /\ sel = NoSel
  /\ sav = [w \in Writers |-> NoSave] /\ acked = {} /\ boots = 0
  /\ disk \in {Absent, File(<<>>), File(<<Entry(1, 1, "completed")>>),
               File(<<Entry(1, 1, "completed"), Entry(1, 2, "failed")>>), Torn(1)}
  /\ \E n \in 2..5, q \in CliLabels, f \in CliLabels :
       cli = [NoCli EXCEPT !.pc = "argv", !.argc = n,
                           !.qarg = IF n > 3 THEN q ELSE "",
                           !.farg = IF n > 4 THEN f ELSE ""]

SpecCli == InitCli /\ [][run_cli]_vars

\* Fetch passes alone: the user fills both tabs' text boxes and presses
\* each tab's fetch button, in any order and at any time.
NextFetch ==
  \/ \E t \in Tabs, n \in 1..MaxItems : Fetch(t, n)
  \/ fetch_thread
  \/ ui_after
  \/ update_video_info

SpecFetch == Init /\ [][NextFetch]_vars

\* Both tabs' fetch passes and starts: the fetch passes of SpecFetch, the
\* two start handlers and each batch_thread up to its enumerate call.
NextQueue ==
  \/ \E t \in Tabs, n \in 1..MaxItems : Fetch(t, n)
  \/ fetch_thread
  \/ ui_after
  \/ update_video_info
  \/ start_download_batch
  \/ start_batch_download
  \/ dismiss
  \/ \E w \in Workers : BeginLoop(w)

SpecQueue == Init /\ [][NextQueue]_vars

TypeOK ==
  /\ batch_video_info \in 0..Len(lists)
  /\ pause_event \in {"absent", "set", "clear"}
  /\ cancel_event \in {"absent", "set", "clear"}
  /\ \A w \in Workers : thr[w].idx <= 2 * MaxItems

\* ------------------------------------------------------------- settings
\* The directories and speed limits the user chooses among, and the
\* combobox entries picked during a run.
Paths == {"~/Downloads", "~/Videos"}
Limits == {0, 1048576}
PickedQualities == {"Best Quality", "720p HD"}
PickedFormats == {"MP4 Video", "MP3 Audio"}

\* What the settings and the run that reads them leave alone.
apart == <<orch, dialog, ui_call, disk, sav, acked, boots, lg, log_direct, sel, cli>>

\* download_video's options from the speed limit: the ratelimit key is set
\* only for a positive limit.
ratelimit(limit) == IF limit > 0 THEN limit ELSE NoRate

\* browse_folder / browse_download_path once the user has chosen p.
browse_folder(p) ==
  /\ job' = [job EXCEPT !.download_path = p]
  /\ UNCHANGED <<quality_var, format_var, apart>>

\* apply_speed with int(mbps * 1024 * 1024) = l.
apply_speed(l) ==
  /\ job' = [job EXCEPT !.speed_limit = l]
  /\ UNCHANGED <<quality_var, format_var, apart>>

\* The user picks an entry of a Download tab combobox.
select_quality(l) ==
  /\ quality_var' = [quality_var EXCEPT !["dl"] = l]
  /\ UNCHANGED <<job, format_var, apart>>

select_format(l) ==
  /\ format_var' = [format_var EXCEPT !["dl"] = l]
  /\ UNCHANGED <<job, quality_var, apart>>

\* start_download_batch over a queue of n items: quality and format_type
\* become locals of the run.
SettingsStart(n) ==
  /\ job.pc = "idle"
  /\ LET q == labelToQuality(quality_var["dl"])
         f == labelToFormat(format_var["dl"])
     IN  job' = [job EXCEPT !.pc = "loop", !.n = n, !.idx = 0,
                            !.quality = q, !.format_type = f,
                            !.at_start = [path |-> job.download_path,
                                          ratelimit |-> ratelimit(job.speed_limit),
                                          quality |-> q, format_type |-> f]]
  /\ UNCHANGED <<quality_var, format_var, apart>>

\* One item of batch_thread: download_video is called with
\* self.downloader.download_path as it is now and the run's quality and
\* format_type; inside, the rate limit is taken from self.speed_limit as it
\* is now.
SettingsDownload ==
  /\ job.pc = "loop"
  /\ job' = [job EXCEPT !.idx = @ + 1,
                         !.pc = IF job.idx + 1 = job.n THEN "done" ELSE "loop",
                         !.used = Append(@, [path |-> job.download_path,
                                             ratelimit |-> ratelimit(job.speed_limit),
                                             quality |-> job.quality,
                                             format_type |-> job.format_type])]
  /\ UNCHANGED <<quality_var, format_var, apart>>

NextSettings ==
  \/ \E p \in Paths : browse_folder(p)
  \/ \E l \in Limits : apply_speed(l)
  \/ \E l \in PickedQualities : select_quality(l)
  \/ \E l \in PickedFormats : select_format(l)
  \/ \E n \in 1..MaxItems : SettingsStart(n)
  \/ SettingsDownload

SpecSettings == Init /\ [][NextSettings]_vars

\* ------------------------------------------------------ outcome reports
\* What a batch run's reporting leaves alone.
aside == <<orch, dialog, ui_call, disk, sav, acked, boots, job, quality_var, format_var,
           log_direct, sel, cli>>

\* A callback handed to root.after for item i: the lambda of the
\* "Downloaded" or "Failed" log line, or of the completed / failed
\* notification.  It holds no value of its own: title and e are read from
\* batch_thread's cells when it runs.
Report(i, kind) == [i |-> i, kind |-> kind]

\* start_download_batch over a queue of n items.
LogStart(n) ==
  /\ lg.pc = "idle"
  /\ lg' = [lg EXCEPT !.pc = "head", !.n = n]
  /\ UNCHANGED aside

\* The head of batch_thread's loop: the next item's title is assigned to
\* the local title, or the loop ends.
LogHead ==
  /\ lg.pc = "head"
  /\ lg' = IF lg.idx < lg.n
            THEN [lg EXCEPT !.title = lg.idx + 1, !.pc = "download"]
            ELSE [lg EXCEPT !.pc = "done"]
  /\ UNCHANGED aside

\* download_video returns, and the "Downloaded" lambda is scheduled, or it
\* raises: e is bound to the exception and the "Failed" lambda is scheduled.
LogDownload(ok) ==
  /\ lg.pc = "download"
  /\ lg' = IF ok
            THEN [lg EXCEPT !.q = Append(@, Report(lg.idx + 1, "Downloaded")), !.pc = "try"]
            ELSE [lg EXCEPT !.q = Append(@, Report(lg.idx + 1, "Failed")), !.pc = "except",
                            !.e = lg.idx + 1]
  /\ UNCHANGED aside

\* add_to_history, then the notification lambda is scheduled; the end of
\* the except block unbinds e.
LogNotify ==
  /\ lg.pc \in {"try", "except"}
  /\ lg' = [lg EXCEPT !.q = Append(@, Report(lg.idx + 1,
                                              IF lg.pc = "try" THEN "completed" ELSE "failed")),
                       !.e = 0, !.idx = @ + 1, !.pc = "head"]
  /\ UNCHANGED aside

\* The UI thread runs the oldest callback: the text is formatted now, from
\* the cells as they are now.  err is the item whose error text the line
\* carries; reading the unbound e raises NameError inside the callback (0).
LogCallback ==
  /\ lg.q # <<>>
  /\ LET c == Head(lg.q)
     IN  lg' = [lg EXCEPT !.q = Tail(@),
                          !.out = Append(@, [i |-> c.i, kind |-> c.kind, title |-> lg.title,
                                             err |-> IF c.kind = "Failed" THEN lg.e ELSE c.i])]
  /\ UNCHANGED aside

NextLog ==
  \/ \E n \in 1..MaxItems : LogStart(n)
  \/ LogHead
  \/ \E ok \in BOOLEAN : LogDownload(ok)
  \/ LogNotify
  \/ LogCallback

SpecLog == Init /\ [][NextLog]_vars

\* ================================================================ claims
Last(q) == q[Len(q)]
InFlightNext(w) == thr'[w].pc \in {"download", "returned", "raised"}
\* Worker w is at the loop head with no item left: the next step ends its loop.
Exhausted(w) == thr[w].pc = "check" /\ thr[w].idx >= Len(lists[thr[w].it])
\* The history holds one entry of w for each of the first n queue items, in order.
EntriesInOrder(w, n) ==
  LET H == HistOf(w)
      Q == lists[thr[w].it]
  IN  /\ Len(H) = n
      /\ \A k \in 1..Len(H) :
            /\ H[k].pos = k
            /\ H[k].info = Q[k]
            /\ H[k].status \in {"completed", "failed"}

\* C1: a run that was not interrupted (no pause, no cancel, no further
\* start) and has reached the end of its queue has appended exactly
\* len(items) history entries, each completed or failed, the i-th one for
\* the i-th queued item.
C1_UninterruptedRunAppendsAll ==
  \A w \in Workers :
    (Exhausted(w) /\ ~run[w].intr) => EntriesInOrder(w, Len(lists[thr[w].it]))

C1_Witness ==
  \E w \in Workers :
    /\ Exhausted(w) /\ ~run[w].intr
    /\ Len(HistOf(w)) = MaxItems
    /\ HistOf(w)[1].status = "completed"

\* C2: when download_video raises for item i, exactly one failed entry is
\* appended for item i and the worker goes on to the next iteration; a
\* download that returns gets a completed entry; at every loop head each
\* item handled so far has exactly one entry; and after a failure the
\* worker still gets to the end of its loop: its thread does not end early.
C2_FailureDoesNotAbort ==
  /\ [](\A w \in Workers : thr[w].pc \in {"check", "pausewait"} => EntriesInOrder(w, thr[w].idx))
  /\ [][\A w \in Workers :
          (thr[w].pc \in {"raised", "returned"} /\ thr'[w] # thr[w]) =>
             /\ thr'[w].pc = "check"
             /\ thr'[w].it = thr[w].it
             /\ thr'[w].idx = thr[w].idx + 1
             /\ Len(download_history') = Len(download_history) + 1
             /\ SubSeq(download_history', 1, Len(download_history)) = download_history
             /\ Last(download_history').w = w
             /\ Last(download_history').pos = thr[w].idx + 1
             /\ Last(download_history').status =
                  (IF thr[w].pc = "raised" THEN "failed" ELSE "completed")]_vars
  /\ [][\A w \in Workers :
          (\E k \in 1..Len(HistOf(w)) : HistOf(w)[k].status = "failed")
             => thr'[w].pc # "dead"]_vars

\* C3: once cancel_download has run during a run, that run's worker starts
\* no item beyond the one that was in flight at that moment, whatever the
\* user does afterwards.
C3_NoStartBeyondCancel ==
  [][\A w \in Workers :
       (run[w].cancel # "none" /\ ~InFlight(w) /\ InFlightNext(w)) =>
          thr[w].idx + 1 <= run[w].lim]_vars

\* C4: after cancel_download has run during a run, the worker leaves its
\* loop in the end; a worker waiting in the pause loop is released.
C4_CancelEndsTheRun ==
  \A w \in Workers : (run[w].cancel # "none") ~> (thr[w].pc \in {"done", "dead"})

\* C5: after pause_download has run during a run, the worker starts no
\* further item until resume_download runs, and the pause itself changes
\* neither the item in flight nor the history.
C5_NoStartWhilePaused ==
  /\ [][\A w \in Workers :
          (run[w].paused /\ run'[w].paused /\ ~InFlight(w)) => ~InFlightNext(w)]_vars
  /\ [][pause_download => (thr' = thr /\ download_history' = download_history)]_vars

\* C6: a start while a run is active is rejected: no worker is created and
\* the pause signal, the cancel signal and the queue stay as they are.
C6_StartRejectedWhileActive ==
  [][((start_download_batch \/ start_batch_download) /\ (\E w \in Workers : InLoop(w)))
        => UNCHANGED <<thr, pause_event, cancel_event, batch_video_info, lists>>]_vars

\* C7: at most one batch worker is alive and at most one download_video
\* call is in flight, over both orchestrators.
C7_SingleFlight ==
  /\ Cardinality({w \in Workers : InLoop(w)}) <= 1
  /\ Cardinality({w \in Workers : thr[w].pc = "download"}) <= 1

\* C8: over one uninterrupted run the value applied to the progress bar
\* never decreases, whatever the capability reports.
C8_ProgressNeverDecreases ==
  [][\A t \in Tabs : Leq(progress_var[t], progress_var'[t])]_vars

\* C9: when an uninterrupted run has ended by exhausting its queue and the
\* UI thread has applied every update, the progress bar is at 100.
C9_CompletionShows100 ==
  \A w \in Workers :
    (thr[w].pc = "done" /\ afterq = <<>>) => IsFull(progress_var[thr[w].kind])

\* C10: when cancel_download runs before the worker's first checkpoint,
\* the run calls download_video for no item and appends no history entry.
C10_EarlyCancelDoesNothing ==
  \A w \in Workers :
    run[w].cancel = "early" => (thr[w].pc \in {"start", "check"} /\ HistOf(w) = <<>>)

\* C11: a start with no queue or an empty queue is rejected on the spot: in
\* the step that opens the error box no worker is created, the pause and
\* cancel signals and every button stay as they are and the history gets no
\* entry; and no step taken while the queue is empty creates a worker.
C11_EmptyStartRejected ==
  /\ [][(dialog = "none" /\ dialog' = "error") =>
          UNCHANGED <<thr, pause_event, cancel_event, btn, download_history, afterq>>]_vars
  /\ [][QueueEmpty => \A w \in Workers : thr'[w].pc = "start" => thr[w].pc = "start"]_vars

C11_Witness == dialog = "error" /\ QueueEmpty /\ batch_video_info # 0

\* A Download-tab run is Running while its worker is in the loop with the
\* pause signal set, Paused while the signal is clear.
Running == (\E w \in Workers : thr[w].kind = "dl" /\ InLoop(w)) /\ pause_event = "set"
Paused == (\E w \in Workers : thr[w].kind = "dl" /\ InLoop(w)) /\ pause_event = "clear"

\* C12: pause_download called when no run is Running, and resume_download
\* called when no run is Paused, change neither the pause signal nor any
\* button.
C12_PauseResumeNoOp ==
  [][((pause_download /\ ~Running) \/ (resume_download /\ ~Paused))
        => UNCHANGED <<pause_event, btn>>]_vars

\* C13: no exception raised while an item is processed ends the worker: its
\* thread lives until the loop has ended and the post-loop reset is scheduled.
C13_ItemExceptionsCaught == \A w \in Workers : thr[w].pc # "dead"

\* The infos of tab t, in the order of their URLs.
InUrlOrder(q, t) ==
  /\ \A i \in 1..Len(q) : q[i].tab = t
  /\ \A i, j \in 1..Len(q) : i < j => q[i].k < q[j].k

\* C14: a fetch pass over N URLs tries every URL whatever fails, and when it
\* ends the queue holds the resolved items of the pass in URL order, their
\* number plus the reported error count being N.
C14_FetchPassAccounts ==
  [][\A t \in Tabs :
       (fth[t].pc = "run" /\ fth'[t].pc = "done") =>
         /\ fth'[t].pos = fth[t].n
         /\ Len(lists'[batch_video_info']) + fth'[t].errors = fth[t].n
         /\ InUrlOrder(lists'[batch_video_info'], t)]_vars

\* The selectors of the catalog, and the selector each label stands for.
Qualities == {"2160p", "1440p", "1080p", "720p", "480p", "360p", "best"}
Formats == {"mp4", "mp3", "webm", "m4a", "aac", "best"}
QualityOf ==
  { <<"4K Ultra HD", "2160p">>, <<"2K QHD", "1440p">>, <<"1080p Full HD", "1080p">>,
    <<"720p HD", "720p">>, <<"480p SD", "480p">>, <<"360p", "360p">>,
    <<"Best Quality", "best">> }
FormatOf ==
  { <<"MP4 Video", "mp4">>, <<"MP3 Audio", "mp3">>, <<"WebM Video", "webm">>,
    <<"M4A Audio", "m4a">>, <<"AAC Audio", "aac">>, <<"Best Format", "best">> }

\* C15: the catalog lookups never fail and give every label one selector:
\* the selector of the label when the catalog has it, best (quality) or mp4
\* (format) when it has not.
C15_LabelsTotal ==
  sel.pc = "return" =>
    /\ sel.quality \in Qualities
    /\ sel.format_type \in Formats
    /\ \A p \in QualityOf : sel.qlabel = p[1] => sel.quality = p[2]
    /\ \A p \in FormatOf : sel.flabel = p[1] => sel.format_type = p[2]
    /\ (\A p \in QualityOf : sel.qlabel # p[1]) => sel.quality = "best"
    /\ (\A p \in FormatOf : sel.flabel # p[1]) => sel.format_type = "mp4"

\* An unknown quality label and a catalog format label have been looked up.
C15_Witness ==
  /\ sel.pc = "return"
  /\ sel.qlabel = "1080p" /\ sel.quality = "best"
  /\ sel.flabel = "MP3 Audio" /\ sel.format_type = "mp3"

\* No writer is inside add_to_history or clear_history, and no save of
\* this process has failed.
Quiet == \A w \in Writers : sav[w].pc = "idle" /\ sav[w].io # "failed"

\* C16: whenever no append or clear is in progress and no I/O failure has
\* occurred, the history read back from the file equals the history in
\* memory, with appends coming from more than one worker thread.
C16_PersistedEqualsMemory ==
  Quiet => load_download_history(disk) = download_history

\* C17: a save that fails during an append is swallowed: the call returns to
\* the worker, which goes on with its next item, and the history in memory
\* keeps the entry with the status it was appended with.
C17_SaveFailureSwallowed ==
  /\ [][\A w \in Workers :
          (sav[w].pc \in {"appended", "dumped"} /\ sav[w].io # "failed"
             /\ sav'[w].io = "failed") =>
            /\ sav'[w].pc = "idle"
            /\ sav'[w].n = sav[w].n
            /\ download_history' = download_history]_vars
  /\ [](\A w \in Workers : \A k \in 1..MaxAppends :
          Len(SelectSeq(download_history, LAMBDA e : e.w = w /\ e.pos = k)) <= 1)

\* A worker whose save of a completed item failed has gone on and recorded
\* its next item; the first entry is still in memory as completed.
C17_Witness ==
  \E w \in Workers :
    /\ sav[w].io = "failed" /\ sav[w].n = 2 /\ sav[w].pc = "idle"
    /\ boots = 0
    /\ Entry(w, 1, "completed") \in Range(download_history)
    /\ Entry(w, 2, "completed") \in Range(download_history)

\* C18: the end of the process at any point loses at most the entry whose
\* append was in flight: every entry whose add_to_history call had returned
\* after a save is in the history the next start loads.
C18_CrashKeepsCompletedAppends ==
  [][boots' = boots + 1 => \A e \in acked : e \in Range(download_history')]_vars

\* The loop of a worker of tab t has ended and its first reset has not run yet.
LoopEnded(t) ==
  \E i \in 1..Len(afterq) :
    afterq[i].k = "config" /\ afterq[i].tab = (IF t = "dl" THEN "download" ELSE "batch_download")
ControlsReset ==
  /\ btn.pause = "disabled" /\ btn.resume = "disabled" /\ btn.cancel = "disabled"
  /\ btn.download = "normal"

\* C19: after the per-item loop has ended, by exhaustion or by cancellation,
\* the pause, resume and cancel controls are eventually all disabled and the
\* start control is enabled (the Batch tab's start control after its loop).
C19_ControlsResetAfterLoop ==
  /\ LoopEnded("dl") ~> ControlsReset
  /\ LoopEnded("bt") ~> (btn.batch_download = "normal")

\* C20: the CLI exits with a non-zero status whenever the metadata
\* resolution or the download fails, and then has appended nothing to the
\* history; when both succeed it appends exactly one completed entry and
\* exits normally.
C20_CliExitStatus ==
  cli.pc = "exit" =>
    IF cli.resolved = "failed" \/ cli.downloaded = "failed"
    THEN /\ cli.exit = 1
         /\ Len(download_history) = cli.loaded
         /\ CliEntry \notin Range(download_history)
    ELSE /\ cli.resolved = "ok" /\ cli.downloaded = "ok"
         /\ cli.exit = 0
         /\ Len(download_history) = cli.loaded + 1
         /\ Last(download_history) = CliEntry

\* A run whose download failed after a resolved title, over a history of
\* two entries, has exited.
C20_Witness ==
  /\ cli.pc = "exit" /\ cli.resolved = "ok" /\ cli.downloaded = "failed"
  /\ cli.exit = 1 /\ cli.loaded = 2

\* C21: the quality and format selectors the CLI hands to download_video are
\* the catalog lookups of its third and fourth arguments, as in the GUI
\* batch path.
C21_CliUsesCatalog ==
  cli.pc = "download" =>
    /\ cli.argc > 3 => cli.quality = labelToQuality(cli.qarg)
    /\ cli.argc > 4 => cli.format_type = labelToFormat(cli.farg)

\* C22: cancel is cooperative.  cancel_download changes no worker and no
\* history entry; a Download-tab worker leaves its loop on a cancel only at
\* the loop head; and an item in flight when cancel is set runs on until
\* download_video returns or raises and gets its completed or failed entry
\* in the step that brings the worker back to the loop head.
C22_CancelIsCooperative ==
  /\ [][cancel_event' # cancel_event /\ cancel_event' = "set" =>
          UNCHANGED <<thr, download_history>>]_vars
  /\ [][\A w \in Workers :
          (thr[w].kind = "dl" /\ cancel_event = "set" /\ InLoop(w)
             /\ thr'[w].pc = "done") => thr[w].pc = "check"]_vars
  /\ [][\A w \in Workers :
          (thr[w].kind = "dl" /\ cancel_event = "set" /\ InFlight(w)
             /\ thr'[w] # thr[w]) =>
            IF thr[w].pc = "download"
            THEN /\ thr'[w].pc \in {"download", "returned", "raised"}
                 /\ thr'[w].idx = thr[w].idx
                 /\ download_history' = download_history
            ELSE /\ thr'[w].pc = "check"
                 /\ download_history' = Append(download_history,
                      [w |-> w, pos |-> thr[w].idx + 1, info |-> Item(w),
                       status |-> IF thr[w].pc = "raised" THEN "failed" ELSE "completed"])]_vars

\* The download of an item has returned with the cancel set during the run.
C22_Witness ==
  \E w \in Workers :
    /\ thr[w].kind = "dl" /\ thr[w].pc = "returned"
    /\ cancel_event = "set" /\ run[w].cancel = "late" /\ run[w].lim = thr[w].idx + 1

C24_ProgressValueInRange ==
  /\ \A i \in 1..Len(afterq) :
        afterq[i].k = "progress" => Leq(Zero, afterq[i].v) /\ Leq(afterq[i].v, Frac(1, 1))
  /\ [][\A w \in Workers :
          (thr[w].pc = "download" /\ Len(afterq') = Len(afterq) + 1
             /\ Last(afterq').k = "progress" /\ Last(afterq').w = w) =>
            LET v == Last(afterq').v
                N == Len(lists[thr[w].it])
            IN  /\ v.d \in {N, N * TotalBytes}
                /\ Leq(Frac(thr[w].idx, N), v)
                /\ Leq(v, Frac(thr[w].idx + 1, N))]_vars

\* C25: fetch and download are sequential phases: no fetch_thread is running
\* while a batch worker is alive, and no worker is started on a queue that a
\* fetch_thread is still filling.
C25_FetchThenDownload ==
  /\ ~(\E t \in Tabs, w \in Workers : fth[t].pc = "run" /\ InLoop(w))
  /\ [][\A w \in Workers :
          (thr[w].pc = "none" /\ thr'[w].pc = "start") =>
             \A t \in Tabs : fth[t].pc # "run"]_vars

\* C26: every UI update a worker thread causes is handed to the UI thread:
\* no thread other than the UI thread writes to a widget.
C26_UiUpdatesOnUiThread == log_direct = {}

\* C27: no blocking call to an external capability (metadata resolve, format
\* listing, download) is ever executed on the UI thread: the UI thread is never
\* inside such a call, so pause, resume and cancel stay processable.
C27_UiThreadNeverBlocks == ui_call = "none"

\* C28: the settings a run uses are those of its start: every download_video
\* call of the run is given the download directory, the rate limit, the
\* quality and the format that were in force when the run began, whatever
\* the user changes meanwhile.
C28_SettingsSnapshot ==
  \A i \in 1..Len(job.used) : job.used[i] = job.at_start

\* Item x has been appended to some queue list.
Present(x) == \E l \in 1..Len(lists) : \E i \in 1..Len(lists[l]) : lists[l][i] = x
\* The items tab t's fetch pass has resolved so far, in URL order.
Resolved(t) == SelectSeq([k \in 1..fth[t].n |-> Info(t, k)], Present)

\* C29: the queue a start consumes holds exactly the resolved items of that
\* tab's own fetch pass, in URL order: the list a batch thread binds is that
\* sequence, and no item resolved by the other tab's pass is ever in the list
\* a batch thread iterates.
C29_QueueIsOwnFetch ==
  /\ \A w \in Workers : thr[w].it # 0 =>
       \A i \in 1..Len(lists[thr[w].it]) : lists[thr[w].it][i].tab = thr[w].kind
  /\ [][\A w \in Workers :
          (thr[w].pc = "start" /\ thr'[w].pc = "check") =>
             lists[thr'[w].it] = Resolved(thr[w].kind)]_vars

\* C30: the log line and the notification shown for item i's outcome name
\* item i's title and, for a failure, item i's error, however far the batch
\* thread has advanced when the UI thread runs the deferred callback.
C30_ReportNamesItsItem ==
  \A j \in 1..Len(lg.out) :
     /\ lg.out[j].title = lg.out[j].i
     /\ lg.out[j].err = lg.out[j].i

============================================================================
